---- MODULE Spec2Model ----
(***************************************************************************)
(* A model of the boxesandglue rich-text compiler: the font family lookup  *)
(* (FontFamily.AddMember / GetFontSource), the font instance cache and the *)
(* node list construction of Document.BuildNodelistFromString, and the     *)
(* recursive Document.Mknodes with its settings cascade and hyperlink      *)
(* start/stop markers.                                                     *)
(***************************************************************************)
EXTENDS Integers, Sequences, FiniteSets, TLC

VARIABLES
    familyMember,   \* FontFamily.familyMember: NoMap or weight -> (style -> source)
    loggerDev,      \* bag.Logger: TRUE when it is a development logger
    usedFonts,      \* Document.usedFonts: NoMap or face -> (size -> font)
    fonts,          \* the font instances CreateFont has made, in order
    nodes,          \* the node heap: node reference -> node record
    items,          \* Text.Items of every span of the tree, by span path
    settings,       \* Text.Settings of every span of the tree, by span path
    declared,       \* the settings the caller declared on each span
    stack,          \* the active Mknodes calls, innermost last
    pending,        \* the BuildNodelistFromString calls the caller still makes
    result,         \* what the last finished operation returned
    runs,           \* every BuildNodelistFromString invocation so far
    events,         \* the hyperlink starts and stops Mknodes has inserted so far
    members,        \* the AddMember calls made on the family so far
    calls,          \* number of top-level Mknodes calls started
    lists,          \* the node kinds of the list each top-level Mknodes call returned
    ids,            \* the id generator goroutine, its channel and the constructor calls
    conv            \* the last unit conversion: its input and what it returned

vars == <<familyMember, loggerDev, usedFonts, fonts, nodes, items, settings,
          declared, stack, pending, result, runs, events, members, calls, lists,
          ids, conv>>

-----------------------------------------------------------------------------
(* Bounds of the model *)

\* longest string handed to BuildNodelistFromString directly
MaxLen == 3
\* most BuildNodelistFromString calls the caller makes on one Document
MaxBuilds == 3
\* most keys of a settings map handed to BuildNodelistFromString directly
MaxKeys == 3
\* most items (strings, nodes, spans) in the whole tree below the root span
MaxItems == 3
\* most settings declared on the spans of one tree
MaxDeclared == 2
\* most top-level Mknodes calls on one tree
MaxCalls == 2
\* most AddMember calls on one family
MaxMembers == 3
\* goroutines that call node constructors concurrently
MaxGoroutines == 2
\* most constructor calls one goroutine makes
MaxNew == 2
\* largest length handed to the unit conversion, in half units (7.5 is 15)
MaxHalves == 15

-----------------------------------------------------------------------------
(* Program constants *)

\* bag.Factor
Factor == 65535
FontWeight400 == 400
FontWeight700 == 700
FontWeight900 == 900
FontStyleNormal == 0
FontStyleItalic == 1

\* the nil node or font pointer, the nil *FontSource
Nil == 0
NoSource == "none"

\* a map literal with no entries
EmptyMap == [k \in {} |-> Nil]

\* m with key k set to v
MapSet(m, k, v) == [x \in DOMAIN m \cup {k} |-> IF x = k THEN v ELSE m[x]]

\* m without key k
MapDelete(m, k) == [x \in DOMAIN m \ {k} |-> m[x]]

\* a Go map variable: nil until it is made, m holds its entries
NoMap == [nil |-> TRUE, m |-> EmptyMap]
Made(m) == [nil |-> FALSE, m |-> m]

-----------------------------------------------------------------------------
(* Font family *)

\* a FontSource record: Source names the font file, face is filled by LoadFace
FontSources == {"A", "B", "X"}

\* the file of source X cannot be loaded
Loadable(fs) == fs # "X"

\* FontSource.SizeAdjust in percent (0 = 100%)
SizeAdjust(fs) == IF fs = "B" THEN 10 ELSE 0

\* FontFamily.AddMember
AddMemberTo(fm, fontsource, weight, style) ==
    IF weight \notin DOMAIN fm.m
    THEN Made(MapSet(fm.m, weight, MapSet(EmptyMap, style, fontsource)))
    ELSE Made(MapSet(fm.m, weight, MapSet(fm.m[weight], style, fontsource)))

\* a mutation of GetFontSource: falls back to any style under the weight
GetFontSourceAnyStyle(fm, weight, style) ==
    IF fm.nil THEN [fs |-> NoSource, err |-> "ErrEmptyFF"]
    ELSE IF weight \notin DOMAIN fm.m
    THEN [fs |-> NoSource, err |-> "ErrUnfulfilledFamilyRequest"]
    ELSE IF style \in DOMAIN fm.m[weight] THEN [fs |-> fm.m[weight][style], err |-> "nil"]
    ELSE [fs |-> fm.m[weight][CHOOSE s \in DOMAIN fm.m[weight] : TRUE], err |-> "nil"]

\* FontFamily.GetFontSource
GetFontSource(fm, weight, style) ==
    IF fm.nil THEN [fs |-> NoSource, err |-> "ErrEmptyFF"]
    ELSE IF weight \notin DOMAIN fm.m
    THEN [fs |-> NoSource, err |-> "ErrUnfulfilledFamilyRequest"]
    ELSE IF style \notin DOMAIN fm.m[weight]
    THEN [fs |-> NoSource, err |-> "ErrUnfulfilledFamilyRequest"]
    ELSE [fs |-> fm.m[weight][style], err |-> "nil"]

\* the family the documents of the model are set up with
StdFamily ==
    AddMemberTo(AddMemberTo(AddMemberTo(NoMap, "A", FontWeight400, FontStyleNormal),
                            "B", FontWeight700, FontStyleNormal),
                "X", FontWeight900, FontStyleNormal)

-----------------------------------------------------------------------------
(* Node lists *)

\* F applied to the value of e, e evaluated once: a statement sequence
\* "x := e; ..." of the code is written Then(e, LAMBDA x : ...)
Then(e, F(_)) == CHOOSE r \in {F(v) : v \in {e}} : TRUE

\* a freshly constructed node of the given kind: every field zero, the id taken
\* from the id sequence (the number of nodes constructed before it)
NewNode(ns, kind) ==
    [kind |-> kind, ID |-> Len(ns), next |-> Nil, prev |-> Nil, StartNode |-> Nil,
     Action |-> "ActionNone", Value |-> "", Callback |-> "", Font |-> Nil,
     Components |-> "", Width |-> 0, Subtype |-> ""]

\* the heap after constructing a node; the new node's reference is Len of it
Alloc(ns, kind) == Append(ns, NewNode(ns, kind))

\* node.InsertAfter: links insert right after cur and returns the head
InsertAfter(ns, head, cur, insert) ==
    IF cur = Nil
    THEN IF head # Nil
         THEN [nodes |-> [ns EXCEPT ![head].prev = insert, ![insert].next = head],
               head |-> insert]
         ELSE [nodes |-> ns, head |-> insert]
    ELSE [nodes |-> IF ns[cur].next # Nil
                    THEN [ns EXCEPT ![insert].next = ns[cur].next,
                                    ![ns[cur].next].prev = insert,
                                    ![cur].next = insert,
                                    ![insert].prev = cur]
                    ELSE [ns EXCEPT ![cur].next = insert, ![insert].prev = cur],
          head |-> IF head = Nil THEN cur ELSE head]

\* the nodes reached walking forward from n, at most fuel of them
RECURSIVE Walk(_, _, _)
Walk(ns, n, fuel) ==
    IF n = Nil \/ fuel = 0 THEN <<>>
    ELSE <<n>> \o Then(ns[n].next, LAMBDA m : Walk(ns, m, fuel - 1))

\* the forward traversal of the list starting at head
ListOf(ns, head) == Walk(ns, head, Len(ns))

\* node.Tail: the last node reached walking forward from n
TailOf(ns, n) ==
    IF n = Nil THEN Nil ELSE Then(ListOf(ns, n), LAMBDA w : w[Len(w)])

\* the builder state b after a new node with the given fields is constructed
\* and inserted after b.cur: n := New...(); set fields; head =
\* InsertAfter(head, cur, n); cur = n
Emit(b, kind, width, fnt, comp, subtype) ==
    Then(Alloc(b.nodes, kind), LAMBDA a :
    Then(InsertAfter([a EXCEPT ![Len(a)].Width = width, ![Len(a)].Font = fnt,
                               ![Len(a)].Components = comp,
                               ![Len(a)].Subtype = subtype],
                     b.head, b.cur, Len(a)), LAMBDA i :
    [b EXCEPT !.nodes = i.nodes, !.head = i.head, !.cur = Len(a)]))

\* node.AppendLineEndAfter on the builder state: penalty 10000, line-end glue
\* and penalty -10000 after b.cur
AppendLineEndAfter(b) ==
    Then(Emit(b, "penalty", 10000, Nil, "", ""), LAMBDA b1 :
    Then(Emit(b1, "glue", 0, Nil, "", "GlueLineEnd"), LAMBDA b2 :
    Emit(b2, "penalty", 0 - 10000, Nil, "", "")))

-----------------------------------------------------------------------------
(* Document.BuildNodelistFromString *)

\* the setting kinds the switch over the settings has a case for
RecognizedSettings ==
    {"SettingFontWeight", "SettingFontFamily", "SettingSize", "SettingColor",
     "SettingHyperlink", "SettingStyle", "SettingOpenTypeFeature",
     "SettingMarginTop", "SettingMarginRight", "SettingMarginBottom",
     "SettingMarginLeft", "SettingHAlign", "SettingLeading", "SettingIndentLeft",
     "SettingIndentLeftRows", "SettingPreserveWhitespace", "SettingYOffset"}

\* the value of ts[k], or def when ts has no key k
Setting(ts, k, def) == IF k \in DOMAIN ts THEN ts[k] ELSE def

\* Document.GetColor: the color of that name in the document's table, or nil
GetColor(name) == IF name = "red" THEN "red" ELSE "nil"

\* Logger.DPanicf: panics with a development logger, only logs otherwise
DPanicf(dev) == dev

\* the local variables after the loop over the settings
ParseSettings(ts) ==
    [fontweight |-> Setting(ts, "SettingFontWeight", FontWeight400),
     fontstyle |-> Setting(ts, "SettingStyle", FontStyleNormal),
     fontfamily |-> Setting(ts, "SettingFontFamily", "nil"),
     fontsize |-> Setting(ts, "SettingSize", 12 * Factor),
     col |-> IF "SettingColor" \in DOMAIN ts THEN GetColor(ts["SettingColor"]) ELSE "nil",
     hyperlink |-> Setting(ts, "SettingHyperlink", ""),
     hasHyperlink |-> "SettingHyperlink" \in DOMAIN ts,
     preserveWhitespace |-> Setting(ts, "SettingPreserveWhitespace", FALSE),
     unknown |-> DOMAIN ts \ RecognizedSettings]

\* Document.LoadFace: the face of the font source, or an error
LoadFace(fs) ==
    IF Loadable(fs) THEN [face |-> fs, err |-> "nil"]
    ELSE [face |-> "nil", err |-> "ErrLoadFace"]

\* the font size after the size adjustment of the font source
AdjustSize(fontsize, fs) ==
    IF SizeAdjust(fs) # 0 THEN (fontsize * (100 - SizeAdjust(fs))) \div 100
    ELSE fontsize

\* usedFonts[face][fontsize], Nil when the map, the face or the size is missing
Lookup(uf, face, fontsize) ==
    IF face \notin DOMAIN uf.m THEN Nil
    ELSE IF fontsize \notin DOMAIN uf.m[face] THEN Nil
    ELSE uf.m[face][fontsize]

\* if fe.usedFonts[face] == nil { fe.usedFonts = make(...) }
InitUsedFonts(uf, face) ==
    IF face \notin DOMAIN uf.m THEN Made(EmptyMap) ELSE uf

\* if fe.usedFonts[face][fontsize] == nil { fe.usedFonts[face] = make(...) }
InitFaceFonts(uf, face, fontsize) ==
    IF Lookup(uf, face, fontsize) = Nil THEN Made(MapSet(uf.m, face, EmptyMap)) ELSE uf

\* the lookup of the font instance, and CreateFont when it is not found
FindOrCreate(uf, fl, face, fontsize) ==
    IF fontsize \in DOMAIN uf.m[face]
    THEN [usedFonts |-> uf, fonts |-> fl, fnt |-> uf.m[face][fontsize]]
    ELSE [usedFonts |-> Made(MapSet(uf.m, face,
                                    MapSet(uf.m[face], fontsize, Len(fl) + 1))),
          fonts |-> Append(fl, [face |-> face, size |-> fontsize]),
          fnt |-> Len(fl) + 1]

\* the font cache: the two map initialisations, then the lookup and CreateFont
CacheFont(uf, fl, face, fontsize) ==
    Then(InitUsedFonts(uf, face), LAMBDA uf1 :
    Then(InitFaceFonts(uf1, face, fontsize), LAMBDA uf2 :
    FindOrCreate(uf2, fl, face, fontsize)))

\* font.Font.Space of a font instance
Space(fl, fnt) == fl[fnt].size \div 4

\* font.Font.Shape: one atom per character of the string
Whitespace == {" ", "\t", "\n"}
Shape(str) ==
    [i \in 1..Len(str) |->
        [IsSpace |-> str[i] \in Whitespace, Components |-> str[i],
         Kernafter |-> IF str[i] = "V" THEN 0 - 1 ELSE 0]]

\* the builder state before the first node: var head, cur node.Node
NoNodes(ns) ==
    [nodes |-> ns, head |-> Nil, cur |-> Nil, lastglue |-> Nil,
     hyperlinkStart |-> Nil, panic |-> FALSE]

\* if hasHyperlink: the hyperlink start node becomes the head
OpenHyperlink(b, p) ==
    IF p.hasHyperlink
    THEN Then(Alloc(b.nodes, "startstop"), LAMBDA a :
         [b EXCEPT !.nodes = [a EXCEPT ![Len(a)].Action = "ActionHyperlink",
                                       ![Len(a)].Value = p.hyperlink],
                   !.head = Len(a), !.hyperlinkStart = Len(a)])
    ELSE b

\* if col != nil: the color start node is inserted after the head and then
\* becomes the head
OpenColor(b, p) ==
    IF p.col # "nil"
    THEN Then(Alloc(b.nodes, "startstop"), LAMBDA a :
         [b EXCEPT !.nodes =
                       IF b.head # Nil
                       THEN InsertAfter([a EXCEPT ![Len(a)].Callback = p.col],
                                        b.head, b.head, Len(a)).nodes
                       ELSE [a EXCEPT ![Len(a)].Callback = p.col],
                   !.head = Len(a)])
    ELSE b

\* the start markers of the hyperlink and of the color; cur = head
OpenRegions(ns, p) ==
    Then(OpenHyperlink(NoNodes(ns), p), LAMBDA b1 :
    Then(OpenColor(b1, p), LAMBDA b2 : [b2 EXCEPT !.cur = b2.head]))

\* b with lastglue set to the node just inserted
GlueAtCur(b) == [b EXCEPT !.lastglue = b.cur]

\* a mutation of PreservedSpace: a tab gives three Rules, not four
PreservedSpaceShortTab(b, r, fl, fnt) ==
    CASE r.Components = " " ->
            Then(Emit(b, "rule", Space(fl, fnt), Nil, "", ""), GlueAtCur)
      [] r.Components = "\t" ->
            Then(Emit(b, "rule", Space(fl, fnt), Nil, "", ""), LAMBDA g1 :
            Then(Emit(g1, "rule", Space(fl, fnt), Nil, "", ""), LAMBDA g2 :
            Then(Emit(g2, "rule", Space(fl, fnt), Nil, "", ""), GlueAtCur)))
      [] r.Components = "\n" -> Then(AppendLineEndAfter(b), GlueAtCur)
      [] OTHER -> [b EXCEPT !.panic = TRUE]

\* a space atom when whitespace is preserved: the switch over r.Components
PreservedSpace(b, r, fl, fnt) ==
    CASE r.Components = " " ->
            Then(Emit(b, "rule", Space(fl, fnt), Nil, "", ""), GlueAtCur)
      [] r.Components = "\t" ->
            Then(Emit(b, "rule", Space(fl, fnt), Nil, "", ""), LAMBDA g1 :
            Then(Emit(g1, "rule", Space(fl, fnt), Nil, "", ""), LAMBDA g2 :
            Then(Emit(g2, "rule", Space(fl, fnt), Nil, "", ""), LAMBDA g3 :
            Then(Emit(g3, "rule", Space(fl, fnt), Nil, "", ""), GlueAtCur))))
      [] r.Components = "\n" -> Then(AppendLineEndAfter(b), GlueAtCur)
      [] OTHER -> [b EXCEPT !.panic = TRUE]

\* a mutation of CollapsedSpace: lastglue is not consulted
CollapsedSpaceAlways(b, fl, fnt) ==
    Then(Emit(b, "glue", Space(fl, fnt), Nil, "", ""), GlueAtCur)

\* a space atom when whitespace is not preserved: a Glue unless one was just made
CollapsedSpace(b, fl, fnt) ==
    IF b.lastglue = Nil
    THEN Then(Emit(b, "glue", Space(fl, fnt), Nil, "", ""), GlueAtCur)
    ELSE b

\* a glyph atom: a Glyph, and a Kern when the atom has a kern after it
GlyphNodes(b, r, fnt) ==
    Then(Emit(b, "glyph", 0, fnt, r.Components, ""), LAMBDA n :
    IF r.Kernafter # 0
    THEN Emit([n EXCEPT !.lastglue = Nil], "kern", r.Kernafter, Nil, "", "")
    ELSE [n EXCEPT !.lastglue = Nil])

\* the body of the loop over the atoms: the nodes of one atom
AtomNodes(b, r, preserveWhitespace, fl, fnt) ==
    IF r.IsSpace
    THEN IF preserveWhitespace THEN PreservedSpace(b, r, fl, fnt)
         ELSE CollapsedSpace(b, fl, fnt)
    ELSE GlyphNodes(b, r, fnt)

\* the loop over the atoms, from atom i on
RECURSIVE AtomLoop(_, _, _, _, _, _)
AtomLoop(b, atoms, i, preserveWhitespace, fl, fnt) ==
    IF i > Len(atoms) \/ b.panic THEN b
    ELSE Then(AtomNodes(b, atoms[i], preserveWhitespace, fl, fnt), LAMBDA b1 :
         AtomLoop(b1, atoms, i + 1, preserveWhitespace, fl, fnt))

\* if col != nil: the stop node is inserted after cur, the head InsertAfter
\* returns is dropped
CloseColor(b, p) ==
    IF p.col # "nil"
    THEN Then(Alloc(b.nodes, "startstop"), LAMBDA a :
         [b EXCEPT !.nodes = InsertAfter([a EXCEPT ![Len(a)].Callback = "reset"],
                                         b.head, b.cur, Len(a)).nodes,
                   !.cur = Len(a)])
    ELSE b

\* if hasHyperlink: the stop node refers to the hyperlink start
CloseHyperlinkRun(b, p) ==
    IF p.hasHyperlink
    THEN Then(Alloc(b.nodes, "startstop"), LAMBDA a :
         Then(InsertAfter([a EXCEPT ![Len(a)].StartNode = b.hyperlinkStart],
                          b.head, b.cur, Len(a)), LAMBDA i :
         [b EXCEPT !.nodes = i.nodes, !.head = i.head, !.cur = Len(a)]))
    ELSE b

\* the stop markers of the color and of the hyperlink, after the atoms
CloseRegions(b, p) == Then(CloseColor(b, p), LAMBDA b1 : CloseHyperlinkRun(b1, p))

\* what BuildNodelistFromString returns without having built anything
NotBuilt(d, outcome, err) ==
    [outcome |-> outcome, err |-> err, head |-> Nil, nodes |-> d.nodes,
     usedFonts |-> d.usedFonts, fonts |-> d.fonts, fnt |-> Nil,
     face |-> "nil", size |-> 0]

\* the node list of str in the font c.fnt
BuildNodes(d, p, str, c, face, fontsize) ==
    Then(OpenRegions(d.nodes, p), LAMBDA o :
    Then(AtomLoop(o, Shape(str), 1, p.preserveWhitespace, c.fonts, c.fnt), LAMBDA b :
    Then(CloseRegions(b, p), LAMBDA e :
    [outcome |-> IF b.panic THEN "panic" ELSE "ok", err |-> "nil",
     head |-> e.head, nodes |-> e.nodes, usedFonts |-> c.usedFonts,
     fonts |-> c.fonts, fnt |-> c.fnt, face |-> face, size |-> fontsize])))

\* the face of the font source fs, the font instance, and then the nodes
LoadAndBuild(d, p, str, fs, fontsize) ==
    Then(LoadFace(fs), LAMBDA l :
    IF l.err # "nil" THEN NotBuilt(d, "error", l.err)
    ELSE Then(CacheFont(d.usedFonts, d.fonts, l.face, fontsize), LAMBDA c :
         BuildNodes(d, p, str, c, l.face, fontsize)))

\* Document.BuildNodelistFromString on the document state d
BuildNodelistFromString(d, ts, str) ==
    Then(ParseSettings(ts), LAMBDA p :
    IF p.unknown # {} /\ DPanicf(d.loggerDev) THEN NotBuilt(d, "panic", "nil")
    ELSE IF p.fontfamily = "nil" THEN NotBuilt(d, "panic", "nil")
    ELSE Then(GetFontSource(d.familyMember, p.fontweight, p.fontstyle), LAMBDA g :
         IF g.err # "nil" THEN NotBuilt(d, "error", g.err)
         ELSE LoadAndBuild(d, p, str, g.fs, AdjustSize(p.fontsize, g.fs))))

-----------------------------------------------------------------------------
(* The inputs of the model *)

\* the characters of the strings: a plain glyph, a glyph with a kern after it,
\* and the three kinds of whitespace
Chars == {"A", "V", " ", "\t", "\n"}

\* the strings of at most n characters
Strings(n) == UNION {[1..k -> Chars] : k \in 0..n}

\* the values a caller gives each setting
SettingValues(k) ==
    CASE k = "SettingFontFamily" -> {"fam"}
      [] k = "SettingFontWeight" -> {650, FontWeight700, FontWeight900}
      [] k = "SettingSize" -> {10 * Factor, 14 * Factor}
      [] k = "SettingColor" -> {"red", "nosuchcolor"}
      [] k = "SettingHyperlink" -> {"u1", "u2"}
      [] k = "SettingPreserveWhitespace" -> {TRUE, FALSE}
      [] k = "SettingStyle" -> {FontStyleItalic}
      [] OTHER -> {"x"}

\* the settings maps with exactly the keys K
RECURSIVE MapsOver(_)
MapsOver(K) ==
    IF K = {} THEN {EmptyMap}
    ELSE LET k == CHOOSE x \in K : TRUE
         IN {MapSet(m, k, v) : m \in MapsOver(K \ {k}), v \in SettingValues(k)}

\* the settings maps with at most n keys out of Keys
SettingsUpTo(Keys, n) ==
    UNION {MapsOver(K) : K \in {S \in SUBSET Keys : Cardinality(S) <= n}}

\* the document state BuildNodelistFromString reads and writes
Doc == [familyMember |-> familyMember, loggerDev |-> loggerDev,
        usedFonts |-> usedFonts, fonts |-> fonts, nodes |-> nodes]

-----------------------------------------------------------------------------
(* Direct calls of BuildNodelistFromString on one Document *)

\* the path of the root span
Root == <<>>

\* the id generator before init has started it, and no conversion made
NoIds == [i |-> 0, pc |-> "off", recv |-> <<>>, handed |-> <<>>]
NoConv == [op |-> "none", parses |-> FALSE, halves |-> 0, unit |-> "", out |-> 0,
           err |-> "nil"]

NoResult ==
    [op |-> "none", outcome |-> "none", err |-> "nil", head |-> Nil, tail |-> Nil,
     fs |-> NoSource, arg |-> <<>>]

\* calls that differ in the font they resolve to
FontSettings ==
    {MapSet(m, "SettingFontFamily", "fam") :
        m \in SettingsUpTo({"SettingFontWeight", "SettingSize"}, 2)}
FontPrograms ==
    UNION {[1..n -> [ts : FontSettings, str : {<<"A">>}]] : n \in 1..MaxBuilds}

\* one call, any settings and any string
TextKeys ==
    {"SettingFontFamily", "SettingPreserveWhitespace", "SettingColor",
     "SettingHyperlink", "SettingDummy", "SettingHAlign"}
TextPrograms ==
    {<<[ts |-> ts, str |-> str]>> :
        ts \in SettingsUpTo(TextKeys, MaxKeys), str \in Strings(MaxLen)}

InitBuild ==
    /\ familyMember = StdFamily
    /\ usedFonts = NoMap
    /\ fonts = <<>>
    /\ nodes = <<>>
    /\ items = [p \in {Root} |-> <<>>]
    /\ settings = [p \in {Root} |-> EmptyMap]
    /\ declared = settings
    /\ stack = <<>>
    /\ result = NoResult
    /\ runs = <<>>
    /\ events = <<>>
    /\ members = <<>>
    /\ calls = 0
    /\ \/ pending \in FontPrograms /\ loggerDev = FALSE
       \/ pending \in TextPrograms /\ loggerDev \in BOOLEAN
    /\ lists = <<>>
    /\ ids = NoIds
    /\ conv = NoConv

\* the entry of runs for a call of BuildNodelistFromString that returned r
Run(t, i, ts, str, r) ==
    [t |-> t, i |-> i, ts |-> ts, str |-> str, outcome |-> r.outcome, err |-> r.err,
     head |-> r.head, fnt |-> r.fnt, face |-> r.face, size |-> r.size, call |-> calls]

\* the caller calls BuildNodelistFromString with the next settings and string
BuildCall ==
    /\ pending # <<>>
    /\ stack = <<>>
    /\ result.outcome # "panic"
    /\ \E c \in {Head(pending)} : \E r \in {BuildNodelistFromString(Doc, c.ts, c.str)} :
          /\ usedFonts' = r.usedFonts
          /\ fonts' = r.fonts
          /\ nodes' = r.nodes
          /\ runs' = Append(runs, Run(Root, 0, c.ts, c.str, r))
          /\ result' = [NoResult EXCEPT !.op = "BuildNodelistFromString",
                            !.outcome = r.outcome, !.err = r.err, !.head = r.head]
    /\ pending' = Tail(pending)
    /\ UNCHANGED <<familyMember, loggerDev, items, settings, declared, stack,
                   events, members, calls>>
    /\ UNCHANGED <<lists, ids, conv>>

NextBuild == BuildCall

SpecBuild == InitBuild /\ [][NextBuild]_vars

-----------------------------------------------------------------------------
(* The rich-text trees handed to Mknodes *)

\* the item sequences with exactly k items in all, nested spans and their items
\* counted; an item is a string, a pre-compiled node or a nested span
RECURSIVE Forests(_)
Forests(k) ==
    IF k = 0 THEN {<<>>}
    ELSE LET Leaves == {[kind |-> "string", Items |-> <<>>],
                        [kind |-> "node", Items |-> <<>>]}
             First(j) == (IF j = 1 THEN Leaves ELSE {})
                            \cup {[kind |-> "text", Items |-> f] : f \in Forests(j - 1)}
         IN UNION {{<<first>> \o rest : first \in First(j), rest \in Forests(k - j)} :
                       j \in 1..k}

\* the Items of the span at path p below the item sequence its
RECURSIVE Sub(_, _)
Sub(its, p) == IF p = <<>> THEN its ELSE Sub(its[Head(p)].Items, Tail(p))

\* the paths of the spans of the tree with root items its
RECURSIVE Paths(_)
Paths(its) ==
    {Root} \cup UNION {{<<i>> \o q : q \in Paths(its[i].Items)} :
                          i \in {j \in DOMAIN its : its[j].kind = "text"}}

\* the positions <<span path, index>> of the pre-compiled node items
NodeItems(its) ==
    UNION {{<<p, i>> : i \in {j \in DOMAIN Sub(its, p) : Sub(its, p)[j].kind = "node"}} :
              p \in Paths(its)}

\* the settings a caller declares on the spans of a tree
TreeKeys == {"SettingHyperlink", "SettingColor", "SettingSize", "SettingFontWeight"}
TreeValues(k) ==
    CASE k = "SettingHyperlink" -> {"u1", "u2"}
      [] k = "SettingColor" -> {"red"}
      [] k = "SettingSize" -> {10 * Factor, 14 * Factor}
      [] k = "SettingFontWeight" -> {650, FontWeight900}

\* the ways to declare at most n settings on the spans P
RECURSIVE Declarations(_, _)
Declarations(P, n) ==
    IF n = 0 THEN {[p \in P |-> EmptyMap]}
    ELSE LET prev == Declarations(P, n - 1)
         IN prev \cup
            UNION {UNION {{[f EXCEPT ![p] = MapSet(f[p], k, v)] :
                              f \in prev, v \in TreeValues(k)} : k \in TreeKeys} : p \in P}

\* the string of every string item
StringItem == <<"A", " ">>

-----------------------------------------------------------------------------
(* Document.Mknodes *)

\* the tree with root items its and the declarations d, as the caller built it:
\* the family is set on the root span, as FormatParagraph does
TreeItems(its) ==
    LET ref == CHOOSE f \in [NodeItems(its) -> 1..Cardinality(NodeItems(its))] :
                   \A a, b \in NodeItems(its) : f[a] = f[b] => a = b
    IN [p \in Paths(its) |->
           [i \in DOMAIN Sub(its, p) |->
               [kind |-> Sub(its, p)[i].kind,
                text |-> IF Sub(its, p)[i].kind = "text" THEN p \o <<i>> ELSE Root,
                node |-> IF Sub(its, p)[i].kind = "node" THEN ref[<<p, i>>] ELSE Nil,
                str |-> IF Sub(its, p)[i].kind = "string" THEN StringItem ELSE <<>>]]]

\* the pre-compiled nodes of the node items: n unlinked rules
RECURSIVE Precompiled(_)
Precompiled(n) ==
    IF n = 0 THEN <<>> ELSE Alloc(Precompiled(n - 1), "rule")

Init ==
    /\ familyMember = StdFamily
    /\ loggerDev = FALSE
    /\ usedFonts = NoMap
    /\ fonts = <<>>
    /\ \E k \in 0..MaxItems : \E its \in Forests(k) :
          /\ items = TreeItems(its)
          /\ nodes = Precompiled(Cardinality(NodeItems(its)))
          /\ \E d \in Declarations(Paths(its), MaxDeclared) :
                settings = [d EXCEPT ![Root] = MapSet(d[Root], "SettingFontFamily", "fam")]
    /\ declared = settings
    /\ stack = <<>>
    /\ pending = <<>>
    /\ result = NoResult
    /\ runs = <<>>
    /\ events = <<>>
    /\ members = <<>>
    /\ calls = 0
    /\ lists = <<>>
    /\ ids = NoIds
    /\ conv = NoConv

\* the local variables of a Mknodes call on the span t that has items
Frame(t, ts) ==
    [t |-> t, i |-> 1, head |-> Nil, tail |-> Nil, newSettings |-> ts,
     hyperlinkStartNode |-> Nil, hyperlinkDest |-> "", err |-> "nil"]

\* the innermost active Mknodes call
Top == stack[Len(stack)]

\* the stack with its innermost call replaced by f
WithTop(f) == [stack EXCEPT ![Len(stack)] = f]

\* the item the innermost call is at
AtItem(kind) ==
    /\ stack # <<>>
    /\ Top.err = "nil"
    /\ Top.i <= Len(items[Top.t])
    /\ items[Top.t][Top.i].kind = kind

\* a hyperlink event of Mknodes
Event(type, node, start, f) ==
    [type |-> type, node |-> node, start |-> start, t |-> f.t, i |-> f.i, call |-> calls]

\* a mutation of CloseHyperlink: the start node stays remembered as open
CloseHyperlinkKeepOpen(ns, f) ==
    IF f.hyperlinkStartNode = Nil THEN [nodes |-> ns, frame |-> f, closed |-> Nil]
    ELSE Then(Alloc(ns, "startstop"), LAMBDA a :
         [nodes |-> InsertAfter([a EXCEPT ![Len(a)].StartNode = f.hyperlinkStartNode],
                                f.head, f.tail, Len(a)).nodes,
          frame |-> [f EXCEPT !.tail = Len(a)],
          closed |-> Len(a)])

\* the stop node for the hyperlink start the call has open, if it has one: the
\* head InsertAfter returns is dropped
CloseHyperlink(ns, f) ==
    IF f.hyperlinkStartNode = Nil THEN [nodes |-> ns, frame |-> f, closed |-> Nil]
    ELSE Then(Alloc(ns, "startstop"), LAMBDA a :
         [nodes |-> InsertAfter([a EXCEPT ![Len(a)].StartNode = f.hyperlinkStartNode],
                                f.head, f.tail, Len(a)).nodes,
          frame |-> [f EXCEPT !.tail = Len(a), !.hyperlinkStartNode = Nil],
          closed |-> Len(a)])

\* the events with the close event of c, if c closed a hyperlink
Closing(c, f) ==
    IF c.closed = Nil THEN events
    ELSE Append(events, Event("close", c.closed, f.hyperlinkStartNode, f))

\* a mutation of ChildSettings: the inherited value overwrites the child's own
ChildSettingsParentWins(child, newSettings) ==
    MapDelete([k \in DOMAIN child \cup DOMAIN newSettings |->
                  IF k \in DOMAIN newSettings THEN newSettings[k] ELSE child[k]],
              "SettingHyperlink")

\* a mutation of ChildSettings: the hyperlink key is not deleted
ChildSettingsKeepHyperlink(child, newSettings) ==
    [k \in DOMAIN child \cup DOMAIN newSettings |->
        IF k \in DOMAIN child THEN child[k] ELSE newSettings[k]]

\* the settings of a nested span after the current settings are copied to it
\* where it has none of its own, and the hyperlink is deleted
ChildSettings(child, newSettings) ==
    MapDelete([k \in DOMAIN child \cup DOMAIN newSettings |->
                  IF k \in DOMAIN child THEN child[k] ELSE newSettings[k]],
              "SettingHyperlink")

\* a mutation of Splice: the list is inserted with no current node, which puts
\* it before the head
SplicePrepend(ns, f, nl, end) ==
    IF nl # Nil
    THEN Then(InsertAfter(ns, f.head, Nil, nl), LAMBDA ia :
         [nodes |-> ia.nodes,
          frame |-> [f EXCEPT !.head = ia.head,
                              !.tail = IF f.tail = Nil THEN end ELSE f.tail]])
    ELSE [nodes |-> ns, frame |-> f]

\* the calling frame after the list nl .. end is inserted after its tail
Splice(ns, f, nl, end) ==
    IF nl # Nil
    THEN Then(InsertAfter(ns, f.head, f.tail, nl), LAMBDA ia :
         [nodes |-> ia.nodes, frame |-> [f EXCEPT !.head = ia.head, !.tail = end]])
    ELSE [nodes |-> ns, frame |-> f]

\* the calling frame after the hyperlink start of the span t is inserted, if
\* the call has none open and the span has the hyperlink setting
OpenSpanHyperlink(ns, f, ts) ==
    IF f.hyperlinkStartNode = Nil /\ "SettingHyperlink" \in DOMAIN ts
    THEN Then(Alloc(ns, "startstop"), LAMBDA a :
         Then(InsertAfter([a EXCEPT ![Len(a)].Action = "ActionHyperlink",
                                    ![Len(a)].Value = ts["SettingHyperlink"]],
                          f.head, f.tail, Len(a)), LAMBDA ia :
         [nodes |-> ia.nodes, opened |-> Len(a),
          frame |-> [f EXCEPT !.hyperlinkDest = ts["SettingHyperlink"],
                              !.hyperlinkStartNode = Len(a),
                              !.head = ia.head, !.tail = Len(a)]]))
    ELSE [nodes |-> ns, opened |-> Nil, frame |-> f]

\* what a node is in a list: its kind, and for a StartStop whether it starts a
\* hyperlink, stops a region with a StartNode, or is another marker
Mark(n) ==
    IF n.kind # "startstop" THEN n.kind
    ELSE IF n.Action = "ActionHyperlink" THEN "hyperlink start"
    ELSE IF n.StartNode # Nil THEN "hyperlink stop"
    ELSE "startstop"

\* the marks of the nodes reached walking forward from head
Marks(ns, head) ==
    Then(ListOf(ns, head), LAMBDA l : [j \in 1..Len(l) |-> Mark(ns[l[j]])])

\* a mutation of Failed: the error of the nested call is dropped
FailedIgnored(f, err) == [f EXCEPT !.i = f.i + 1]

\* the calling frame after a nested Mknodes call returned the error err
Failed(f, err) == [f EXCEPT !.err = err]

\* the caller calls Mknodes on the root span
MknodesCall ==
    /\ stack = <<>>
    /\ pending = <<>>
    /\ calls < MaxCalls
    /\ result.outcome # "panic"
    /\ calls' = calls + 1
    /\ IF items[Root] = <<>>
       THEN /\ result' = [NoResult EXCEPT !.op = "Mknodes", !.outcome = "ok"]
            /\ stack' = stack
            /\ lists' = Append(lists, [outcome |-> "ok", marks |-> <<>>])
       ELSE /\ result' = NoResult
            /\ stack' = <<Frame(Root, settings[Root])>>
            /\ lists' = lists
    /\ UNCHANGED <<familyMember, loggerDev, usedFonts, fonts, nodes, items, settings,
                   declared, pending, runs, events, members>>
    /\ UNCHANGED <<ids, conv>>

\* case string: close the open hyperlink, build the nodes of the string, append
MknodesString ==
    /\ AtItem("string")
    /\ \E f \in {Top} : \E c \in {CloseHyperlink(nodes, f)} :
       \E r \in {BuildNodelistFromString([Doc EXCEPT !.nodes = c.nodes],
                                         c.frame.newSettings, items[f.t][f.i].str)} :
          /\ usedFonts' = r.usedFonts
          /\ fonts' = r.fonts
          /\ runs' = Append(runs, Run(f.t, f.i, f.newSettings, items[f.t][f.i].str, r))
          /\ events' = Closing(c, f)
          /\ CASE r.outcome = "ok" ->
                    \E sp \in {Splice(r.nodes, c.frame, r.head, TailOf(r.nodes, r.head))} :
                       /\ nodes' = sp.nodes
                       /\ stack' = WithTop([sp.frame EXCEPT !.i = f.i + 1])
                       /\ result' = result
               [] r.outcome = "error" ->
                    /\ nodes' = r.nodes
                    /\ stack' = WithTop([c.frame EXCEPT !.err = r.err])
                    /\ result' = result
               [] OTHER ->
                    /\ nodes' = r.nodes
                    /\ stack' = <<>>
                    /\ result' = [NoResult EXCEPT !.op = "Mknodes", !.outcome = "panic"]
    /\ UNCHANGED <<familyMember, loggerDev, items, settings, declared, pending,
                   members, calls>>
    /\ UNCHANGED <<lists, ids, conv>>

\* case *Text: open a hyperlink for the span, copy the settings, recurse
MknodesText ==
    /\ AtItem("text")
    /\ \E f \in {Top} : \E t \in {items[Top.t][Top.i].text} :
       \E o \in {OpenSpanHyperlink(nodes, f, settings[t])} :
       \E ts \in {ChildSettings(settings[t], f.newSettings)} :
          /\ nodes' = o.nodes
          /\ settings' = [settings EXCEPT ![t] = ts]
          /\ events' = IF o.opened # Nil
                        THEN Append(events, Event("open", o.opened, o.opened, f))
                        ELSE events
          /\ IF items[t] = <<>>
             THEN stack' = WithTop([o.frame EXCEPT !.i = f.i + 1])
             ELSE stack' = Append(WithTop(o.frame), Frame(t, ts))
    /\ UNCHANGED <<familyMember, loggerDev, usedFonts, fonts, items, declared,
                   pending, result, runs, members, calls>>
    /\ UNCHANGED <<lists, ids, conv>>

\* case node.Node: append the pre-compiled node
MknodesNode ==
    /\ AtItem("node")
    /\ \E f \in {Top} : \E ia \in {InsertAfter(nodes, f.head, f.tail, items[f.t][f.i].node)} :
          /\ nodes' = ia.nodes
          /\ stack' = WithTop([f EXCEPT !.head = ia.head, !.tail = items[f.t][f.i].node,
                                        !.i = f.i + 1])
    /\ UNCHANGED <<familyMember, loggerDev, usedFonts, fonts, items, settings,
                   declared, pending, result, runs, events, members, calls>>
    /\ UNCHANGED <<lists, ids, conv>>

\* after the last item: close the open hyperlink and return head and tail; the
\* calling Mknodes appends the returned list
MknodesReturn ==
    /\ stack # <<>>
    /\ Top.err = "nil"
    /\ Top.i > Len(items[Top.t])
    /\ \E f \in {Top} : \E c \in {CloseHyperlink(nodes, f)} :
       \E up \in {SubSeq(stack, 1, Len(stack) - 1)} :
          /\ events' = Closing(c, f)
          /\ IF up = <<>>
             THEN /\ nodes' = c.nodes
                  /\ stack' = <<>>
                  /\ result' = [NoResult EXCEPT !.op = "Mknodes", !.outcome = "ok",
                                    !.head = c.frame.head, !.tail = c.frame.tail]
                  /\ lists' = Append(lists, [outcome |-> "ok",
                                              marks |-> Marks(c.nodes, c.frame.head)])
             ELSE \E sp \in {Splice(c.nodes, up[Len(up)], c.frame.head, c.frame.tail)} :
                     /\ nodes' = sp.nodes
                     /\ stack' = [up EXCEPT ![Len(up)] =
                                       [sp.frame EXCEPT !.i = sp.frame.i + 1]]
                     /\ result' = result
                     /\ lists' = lists
    /\ UNCHANGED <<familyMember, loggerDev, usedFonts, fonts, items, settings,
                   declared, pending, runs, members, calls>>
    /\ UNCHANGED <<ids, conv>>

\* return nil, nil, err: the call that failed, and then every calling Mknodes
MknodesFail ==
    /\ stack # <<>>
    /\ Top.err # "nil"
    /\ \E up \in {SubSeq(stack, 1, Len(stack) - 1)} :
          IF up = <<>>
          THEN /\ stack' = <<>>
               /\ result' = [NoResult EXCEPT !.op = "Mknodes", !.outcome = "error",
                                 !.err = Top.err]
               /\ lists' = Append(lists, [outcome |-> "error", marks |-> <<>>])
          ELSE /\ stack' = [up EXCEPT ![Len(up)] = Failed(up[Len(up)], Top.err)]
               /\ result' = result
               /\ lists' = lists
    /\ UNCHANGED <<familyMember, loggerDev, usedFonts, fonts, nodes, items, settings,
                   declared, pending, runs, events, members, calls>>
    /\ UNCHANGED <<ids, conv>>

Next ==
    \/ MknodesCall
    \/ MknodesString
    \/ MknodesText
    \/ MknodesNode
    \/ MknodesReturn
    \/ MknodesFail

Spec == Init /\ [][Next]_vars

-----------------------------------------------------------------------------
(* A font family being set up and queried *)

Weights == {FontWeight400, 650, FontWeight700}
Styles == {FontStyleNormal, FontStyleItalic}

InitFamily ==
    /\ familyMember = NoMap
    /\ loggerDev = FALSE
    /\ usedFonts = NoMap
    /\ fonts = <<>>
    /\ nodes = <<>>
    /\ items = [p \in {Root} |-> <<>>]
    /\ settings = [p \in {Root} |-> EmptyMap]
    /\ declared = settings
    /\ stack = <<>>
    /\ pending = <<>>
    /\ result = NoResult
    /\ runs = <<>>
    /\ events = <<>>
    /\ members = <<>>
    /\ calls = 0
    /\ lists = <<>>
    /\ ids = NoIds
    /\ conv = NoConv

\* the caller adds a member to the family
AddMember(fontsource, weight, style) ==
    /\ Len(members) < MaxMembers
    /\ familyMember' = AddMemberTo(familyMember, fontsource, weight, style)
    /\ members' = Append(members, [fs |-> fontsource, weight |-> weight, style |-> style])
    /\ result' = [NoResult EXCEPT !.op = "AddMember"]
    /\ UNCHANGED <<loggerDev, usedFonts, fonts, nodes, items, settings, declared,
                   stack, pending, runs, events, calls>>
    /\ UNCHANGED <<lists, ids, conv>>

\* the caller asks the family for the source of a weight and style
GetFontSourceCall(weight, style) ==
    /\ \E g \in {GetFontSource(familyMember, weight, style)} :
          result' = [NoResult EXCEPT !.op = "GetFontSource", !.fs = g.fs, !.err = g.err,
                         !.outcome = IF g.err = "nil" THEN "ok" ELSE "error",
                         !.arg = <<weight, style>>]
    /\ UNCHANGED <<familyMember, loggerDev, usedFonts, fonts, nodes, items, settings,
                   declared, stack, pending, runs, events, members, calls>>
    /\ UNCHANGED <<lists, ids, conv>>

NextFamily ==
    \/ \E fs \in {"A", "B"}, w \in Weights, st \in Styles : AddMember(fs, w, st)
    \/ \E w \in Weights, st \in Styles : GetFontSourceCall(w, st)

SpecFamily == InitFamily /\ [][NextFamily]_vars

-----------------------------------------------------------------------------
(* The node id sequence: genIntegerSequence and the node constructors *)

Goroutines == 1..MaxGoroutines

\* the constructors that take their id from the channel
Constructors == {"NewDisc", "NewGlyph", "NewGlue"}

\* a goroutine that is not inside a constructor
Idle == [pc |-> "idle", new |-> "", got |-> <<>>]

\* init(): ids = make(chan int); go genIntegerSequence(ids), which starts with
\* i := 0 and blocks in its first send
InitIds ==
    /\ familyMember = NoMap
    /\ loggerDev = FALSE
    /\ usedFonts = NoMap
    /\ fonts = <<>>
    /\ nodes = <<>>
    /\ items = [p \in {Root} |-> <<>>]
    /\ settings = [p \in {Root} |-> EmptyMap]
    /\ declared = settings
    /\ stack = <<>>
    /\ pending = <<>>
    /\ result = NoResult
    /\ runs = <<>>
    /\ events = <<>>
    /\ members = <<>>
    /\ calls = 0
    /\ lists = <<>>
    /\ ids = [i |-> 0, pc |-> "send", recv |-> [g \in Goroutines |-> Idle],
              handed |-> <<>>]
    /\ conv = NoConv

\* what the other specifications' variables do in this one
IdsOnly ==
    UNCHANGED <<familyMember, loggerDev, usedFonts, fonts, nodes, items, settings,
                declared, stack, pending, result, runs, events, members, calls,
                lists, conv>>

\* a mutation of GenNext: the counter is not incremented
GenStuck(i) == i

\* i++ of genIntegerSequence
GenNext(i) == i + 1

\* goroutine g calls a constructor: n := &T{} and then it blocks in <-ids
NewCall(g, new) ==
    /\ ids.recv[g].pc = "idle"
    /\ Len(ids.recv[g].got) < MaxNew
    /\ ids' = [ids EXCEPT !.recv[g].pc = "recv", !.recv[g].new = new]
    /\ IdsOnly

\* ids <- i meets n.id = <-ids of goroutine g: the channel is unbuffered, so the
\* value goes to exactly one receiver that is waiting, and the constructor
\* returns
HandOff(g) ==
    /\ ids.pc = "send"
    /\ ids.recv[g].pc = "recv"
    /\ ids' = [ids EXCEPT !.pc = "inc",
                          !.recv[g].pc = "idle",
                          !.recv[g].got = Append(@, ids.i),
                          !.handed = Append(@, [g |-> g, id |-> ids.i])]
    /\ IdsOnly

\* i++ after the send, and back to the send
GenInc ==
    /\ ids.pc = "inc"
    /\ ids' = [ids EXCEPT !.i = GenNext(ids.i), !.pc = "send"]
    /\ IdsOnly

NextIds ==
    \/ \E g \in Goroutines, new \in Constructors : NewCall(g, new)
    \/ \E g \in Goroutines : HandOff(g)
    \/ GenInc

SpecIds == InitIds /\ [][NextIds]_vars

-----------------------------------------------------------------------------
(* bag.Sp and bag.ScaledPointFromFloat *)

\* the units unitRE matches
Units == {"mm", "cm", "in", "pt", "px", "pc", "m"}

\* ScaledPoint(x) of the float x = a * b / d, a, b >= 0: the truncation, with
\* no product larger than the result times d
Truncated(a, b, d) == (a \div d) * b + ((a % d) * b) \div d

\* Sp on a string made of a number and a unit, with the given factor; the
\* number is given in halves when strconv.ParseFloat accepts it. The quotients
\* are those of the code in lowest terms: 72 / 10 / 2.54 is 3600 / 127
SpBy(factor, num, unit) ==
    IF unit \notin Units THEN [out |-> 0, err |-> "ErrConversion"]
    ELSE IF ~num.parses THEN [out |-> 0, err |-> "ErrConversion"]
    ELSE [err |-> "nil",
          out |-> CASE unit = "pt" -> Truncated(num.halves * factor, 1, 2)
                    [] unit = "in" -> Truncated(num.halves * factor, 72, 2)
                    [] unit = "mm" -> Truncated(num.halves * factor, 180, 127)
                    [] unit = "cm" -> Truncated(num.halves * factor, 1800, 127)
                    [] unit = "m" -> Truncated(num.halves * factor, 180000, 127)
                    [] unit = "px" -> Truncated(num.halves * factor, 2, 3)
                    [] unit = "pc" -> Truncated(num.halves * factor, 12, 2)]

\* a mutation of Sp: the factor is 2^16
SpPowerOfTwo(num, unit) == SpBy(Factor + 1, num, unit)

\* bag.Sp
Sp(num, unit) == SpBy(Factor, num, unit)

\* bag.ScaledPointFromFloat of f = halves / 2
ScaledPointFromFloat(halves) == Truncated(halves * Factor, 1, 2)

\* the caller has a length to convert: a number, or a text that is none, and a
\* unit, or a text that is none
InitSp ==
    /\ familyMember = NoMap
    /\ loggerDev = FALSE
    /\ usedFonts = NoMap
    /\ fonts = <<>>
    /\ nodes = <<>>
    /\ items = [p \in {Root} |-> <<>>]
    /\ settings = [p \in {Root} |-> EmptyMap]
    /\ declared = settings
    /\ stack = <<>>
    /\ pending = <<>>
    /\ result = NoResult
    /\ runs = <<>>
    /\ events = <<>>
    /\ members = <<>>
    /\ calls = 0
    /\ lists = <<>>
    /\ ids = NoIds
    /\ \E h \in 0..MaxHalves, u \in Units \cup {"xx"}, ok \in BOOLEAN :
          conv = [NoConv EXCEPT !.op = "input", !.parses = ok,
                                !.halves = IF ok THEN h ELSE 0, !.unit = u]

\* what the other specifications' variables do in this one
ConvOnly ==
    UNCHANGED <<familyMember, loggerDev, usedFonts, fonts, nodes, items, settings,
                declared, stack, pending, result, runs, events, members, calls,
                lists, ids>>

\* the caller calls Sp on the number followed by the unit
SpCall ==
    /\ conv.op = "input"
    /\ \E r \in {Sp([parses |-> conv.parses, halves |-> conv.halves], conv.unit)} :
          conv' = [conv EXCEPT !.op = "Sp", !.out = r.out, !.err = r.err]
    /\ ConvOnly

\* the caller calls ScaledPointFromFloat on the number
ScaledPointFromFloatCall ==
    /\ conv.op = "input"
    /\ conv.parses
    /\ conv' = [conv EXCEPT !.op = "ScaledPointFromFloat", !.unit = "",
                            !.out = ScaledPointFromFloat(conv.halves)]
    /\ ConvOnly

NextSp ==
    \/ SpCall
    \/ ScaledPointFromFloatCall

SpecSp == InitSp /\ [][NextSp]_vars

-----------------------------------------------------------------------------
(* Claims *)

\* the kinds of the nodes of a list, in order
Kinds(ns, l) == [j \in 1..Len(l) |-> ns[l[j]].kind]

\* the runs that returned a node list
OkRuns == {j \in DOMAIN runs : runs[j].outcome = "ok"}

\* C1: within one Document, two calls that resolve to the same (face, size) use
\* the identical font instance, and CreateFont is invoked at most once per
\* (face, size).
C1_OneFontPerFaceAndSize ==
    /\ \A i, j \in OkRuns :
          (runs[i].face = runs[j].face /\ runs[i].size = runs[j].size)
              => runs[i].fnt = runs[j].fnt
    /\ \A i, j \in DOMAIN fonts : fonts[i] = fonts[j] => i = j

\* C2: in a returned node list, every stop node whose StartNode is set refers to
\* a start node reached strictly earlier when walking forward from the head.
C2_StopRefersToEarlierStart ==
    result.outcome = "ok" =>
        LET l == ListOf(nodes, result.head)
        IN \A j \in DOMAIN l :
              nodes[l[j]].StartNode # Nil =>
                  \E i \in 1..(j - 1) : l[i] = nodes[l[j]].StartNode

\* a direct call of BuildNodelistFromString has just returned a node list
Built == result.op = "BuildNodelistFromString" /\ result.outcome = "ok"

\* the entry of runs for the call that has just returned
LastRun == runs[Len(runs)]

\* whether the call of run r preserved whitespace
Preserves(r) == Setting(r.ts, "SettingPreserveWhitespace", FALSE)

\* the number of maximal sequences of consecutive whitespace characters of str
SpaceRuns(str) ==
    Cardinality({i \in DOMAIN str :
        str[i] \in Whitespace /\ (i = 1 \/ str[i - 1] \notin Whitespace)})

\* C6: with whitespace preservation off, every maximal sequence of consecutive
\* space atoms yields exactly one Glue: as many Glue nodes as such sequences, no
\* two of them adjacent, and a Glyph between any two of them.
C6_SpacesCollapseToOneGlue ==
    (Built /\ ~Preserves(LastRun)) =>
        LET k == Kinds(nodes, ListOf(nodes, result.head))
            glues == {i \in DOMAIN k : k[i] = "glue"}
        IN /\ Cardinality(glues) = SpaceRuns(LastRun.str)
           /\ \A i \in glues : i + 1 \notin glues
           /\ \A i1, i2 \in glues :
                 i1 < i2 => \E m \in (i1 + 1)..(i2 - 1) : k[m] = "glyph"

\* a string with two spaces in a row and a glyph after them was compiled with
\* whitespace preservation off
C6_Witness ==
    /\ Built /\ ~Preserves(LastRun)
    /\ \E i \in DOMAIN LastRun.str :
          /\ i + 2 \in DOMAIN LastRun.str
          /\ LastRun.str[i] = " " /\ LastRun.str[i + 1] = " "
          /\ LastRun.str[i + 2] = "V"
    /\ \E n \in DOMAIN nodes : nodes[n].kind = "glue"

\* the kinds of the nodes one character gives when whitespace is preserved
PreservedKinds(c) ==
    CASE c = " " -> <<"rule">>
      [] c = "\t" -> <<"rule", "rule", "rule", "rule">>
      [] c = "\n" -> <<"penalty", "glue", "penalty">>
      [] c = "V" -> <<"glyph", "kern">>
      [] OTHER -> <<"glyph">>

\* the kinds of the nodes a string gives when whitespace is preserved
RECURSIVE PreservedKindsOf(_)
PreservedKindsOf(str) ==
    IF str = <<>> THEN <<>>
    ELSE PreservedKinds(Head(str)) \o PreservedKindsOf(Tail(str))

\* C7: with whitespace preservation on, every space atom yields one Rule, every
\* tab four Rules and every newline one line-end sequence, each character its
\* own nodes in order; the Rules have the font's space width and no inter-word
\* Glue is emitted.
C7_PreservedWhitespace ==
    (Built /\ Preserves(LastRun)) =>
        LET IsContent(n) == nodes[n].kind # "startstop"
            l == SelectSeq(ListOf(nodes, result.head), IsContent)
        IN /\ Kinds(nodes, l) = PreservedKindsOf(LastRun.str)
           /\ \A i \in DOMAIN l :
                 /\ nodes[l[i]].kind = "rule"
                       => nodes[l[i]].Width = Space(fonts, LastRun.fnt)
                 /\ nodes[l[i]].kind = "glue" => nodes[l[i]].Subtype = "GlueLineEnd"

\* a string with a tab and a space in a row was compiled with whitespace
\* preservation on
C7_Witness ==
    /\ Built /\ Preserves(LastRun)
    /\ \E i \in DOMAIN LastRun.str :
          /\ i + 1 \in DOMAIN LastRun.str
          /\ LastRun.str[i] = "\t" /\ LastRun.str[i + 1] = " "
    /\ Cardinality({n \in DOMAIN nodes : nodes[n].kind = "rule"}) >= 5

\* the AddMember calls made under the weight and style
AddedUnder(weight, style) ==
    {i \in DOMAIN members : members[i].weight = weight /\ members[i].style = style}

\* the family after the AddMember calls ms, made in order on an empty family
RECURSIVE FamilyOf(_)
FamilyOf(ms) ==
    IF ms = <<>> THEN NoMap
    ELSE AddMemberTo(FamilyOf(SubSeq(ms, 1, Len(ms) - 1)), ms[Len(ms)].fs,
                     ms[Len(ms)].weight, ms[Len(ms)].style)

C10_UnknownSettingFails ==
    \A j \in DOMAIN runs :
        (~loggerDev /\ DOMAIN runs[j].ts \ RecognizedSettings # {})
            => runs[j].outcome # "ok"

\* the hyperlink starts Mknodes has opened and the stops it has inserted
Opens == {e \in DOMAIN events : events[e].type = "open"}
Closes == {e \in DOMAIN events : events[e].type = "close"}

\* the nodes of the heap whose StartNode is the node s
StopsOf(s) == {n \in DOMAIN nodes : nodes[n].StartNode = s}

\* the top-level Mknodes call has just returned without error
Returned == stack = <<>> /\ result.op = "Mknodes" /\ result.outcome = "ok"

\* the close event c is where the hyperlink start of the open event o has to be
\* closed: in the same Mknodes call on the same span, at the first string item
\* after the span item that opened it, right before the nodes of that string,
\* or after the last item when no string item follows
ClosedInPlace(o, c) ==
    /\ c.t = o.t /\ c.call = o.call /\ c.i > o.i
    /\ \A j \in (o.i + 1)..(c.i - 1) : items[o.t][j].kind # "string"
    /\ IF c.i <= Len(items[o.t])
       THEN /\ items[o.t][c.i].kind = "string"
            /\ \A j \in DOMAIN runs :
                  (runs[j].t = c.t /\ runs[j].i = c.i /\ runs[j].call = c.call
                      /\ runs[j].outcome = "ok")
                      => nodes[c.node].next = runs[j].head
       ELSE c.i = Len(items[o.t]) + 1

\* C3: every hyperlink start a Mknodes call opens for a nested span gets at most
\* one stop referencing it, inserted right before the nodes of the next string
\* item of the same span or else at the end of that call; when Mknodes has
\* returned without error every start it opened has exactly one stop.
C3_StartClosedExactlyOnce ==
    \A e \in Opens :
        /\ Cardinality(StopsOf(events[e].node)) <= 1
        /\ \A c \in Closes :
              events[c].start = events[e].node
                  => /\ ClosedInPlace(events[e], events[c])
                     /\ StopsOf(events[e].node) = {events[c].node}
        /\ (Returned /\ events[e].call = calls)
              => /\ Cardinality(StopsOf(events[e].node)) = 1
                 /\ \E c \in Closes : events[c].start = events[e].node

\* Mknodes has returned a list in which one hyperlink start was closed before
\* a string item and another at the end of the call
C3_Witness ==
    /\ Returned
    /\ \E c1, c2 \in Closes :
          /\ events[c1].call = calls /\ events[c2].call = calls
          /\ events[c1].i <= Len(items[events[c1].t])
          /\ events[c2].i > Len(items[events[c2].t])
          /\ \E e \in Opens : events[e].node = events[c1].start
          /\ \E e \in Opens : events[e].node = events[c2].start

\* the runs of the string items of nested spans
NestedRuns == {j \in DOMAIN runs : runs[j].t # Root}

\* C4: every Mknodes call on a nested span works with a settings map without
\* the hyperlink key, and no text run below the top-level span is built with a
\* hyperlink setting.
C4_NoHyperlinkBelowTop ==
    /\ \A d \in 2..Len(stack) : "SettingHyperlink" \notin DOMAIN stack[d].newSettings
    /\ \A j \in NestedRuns : "SettingHyperlink" \notin DOMAIN runs[j].ts

\* a string of a nested span was built, the span declared a hyperlink of its own
\* and the top-level span declared one too
C4_Witness ==
    \E j \in NestedRuns :
        /\ "SettingHyperlink" \in DOMAIN declared[runs[j].t]
        /\ "SettingHyperlink" \in DOMAIN declared[Root]

\* the spans enclosing the span t that declare the key k, t itself included
Declaring(t, k) ==
    {n \in 0..Len(t) : k \in DOMAIN declared[SubSeq(t, 1, n)]}

\* the span nearest to t among them
Nearest(t, k) == SubSeq(t, 1, CHOOSE n \in Declaring(t, k) : \A m \in Declaring(t, k) : m <= n)

\* the setting keys the cascade is about: every key but the hyperlink
CascadedKeys == (TreeKeys \cup {"SettingFontFamily"}) \ {"SettingHyperlink"}

\* C5: for every key other than the hyperlink key, a text run is built with the
\* value declared by the nearest enclosing span that declares the key, and
\* without the key when no enclosing span declares it.
C5_NearestDeclarationWins ==
    \A j \in DOMAIN runs : \A k \in CascadedKeys :
        IF Declaring(runs[j].t, k) = {}
        THEN k \notin DOMAIN runs[j].ts
        ELSE /\ k \in DOMAIN runs[j].ts
             /\ runs[j].ts[k] = declared[Nearest(runs[j].t, k)][k]

\* a string of a nested span was built, the span and the top-level span declare
\* the same key with different values
C5_Witness ==
    \E j \in NestedRuns : \E k \in CascadedKeys :
        /\ k \in DOMAIN declared[runs[j].t] /\ k \in DOMAIN declared[Root]
        /\ declared[runs[j].t][k] # declared[Root][k]
        /\ runs[j].ts[k] = declared[runs[j].t][k]

\* the runs of the current top-level Mknodes call that failed
FailedRuns == {j \in DOMAIN runs : runs[j].call = calls /\ runs[j].outcome = "error"}

\* C9: when font resolution or face loading fails for a string item at any
\* depth, no later item is compiled in that call, and the top-level Mknodes
\* call returns a nil head, a nil tail and that error.
C9_ErrorAbortsCall ==
    /\ \A j \in DOMAIN runs :
          runs[j].outcome = "error"
              => \A k \in DOMAIN runs : k > j => runs[k].call # runs[j].call
    /\ (stack = <<>> /\ result.op = "Mknodes" /\ FailedRuns # {})
          => /\ result.outcome = "error"
             /\ result.head = Nil /\ result.tail = Nil
             /\ result.err = LastRun.err
             /\ Len(runs) \in FailedRuns

\* the top-level call returned the error of a string of a nested span, after an
\* earlier string of the same call had been built
C9_Witness ==
    /\ stack = <<>> /\ result.op = "Mknodes" /\ result.outcome = "error"
    /\ Len(runs) \in FailedRuns /\ LastRun.t # Root
    /\ \E j \in DOMAIN runs : runs[j].call = calls /\ runs[j].outcome = "ok"

\* C11: with goroutines calling node constructors concurrently, the generator
\* hands out 0, 1, 2, ... in the order of the hand-offs, each value to exactly
\* one constructor call, none repeated and none skipped.
C11_IdsUniqueAndInOrder ==
    /\ \A k \in DOMAIN ids.handed : ids.handed[k].id = k - 1
    /\ \A g, h \in Goroutines : \A a \in DOMAIN ids.recv[g].got :
          \A b \in DOMAIN ids.recv[h].got :
             ids.recv[g].got[a] = ids.recv[h].got[b] => (g = h /\ a = b)
    /\ \A g \in Goroutines : \A a \in DOMAIN ids.recv[g].got :
          \E k \in DOMAIN ids.handed :
             ids.handed[k] = [g |-> g, id |-> ids.recv[g].got[a]]

\* two goroutines were waiting in a constructor at the same time, each has got
\* an id, and a third call is waiting
C11_Witness ==
    /\ Len(ids.handed) >= 2
    /\ ids.handed[1].g # ids.handed[2].g
    /\ \E g \in Goroutines : ids.recv[g].pc = "recv"

\* the length handed to the last conversion is a whole number of units
Whole == conv.parses /\ conv.halves % 2 = 0

\* C12: the factor by which Sp and ScaledPointFromFloat multiply a value given
\* in points is 65536: Sp of n points is n * 65536 and Sp of n inches is
\* n * 72 * 65536.
C12_UnitIs65536th ==
    /\ (conv.op = "Sp" /\ Whole /\ conv.unit = "pt")
          => (conv.err = "nil" /\ conv.out = (conv.halves \div 2) * 65536)
    /\ (conv.op = "Sp" /\ Whole /\ conv.unit = "in")
          => (conv.err = "nil" /\ conv.out = (conv.halves \div 2) * 72 * 65536)
    /\ (conv.op = "ScaledPointFromFloat" /\ Whole)
          => conv.out = (conv.halves \div 2) * 65536

\* C12, amended: the factor by which Sp and ScaledPointFromFloat multiply a
\* value given in points is 65535 (0xffff): Sp of n points is n * 65535 and Sp
\* of n inches is n * 72 * 65535.
C12_UnitIs65535th ==
    /\ (conv.op = "Sp" /\ Whole /\ conv.unit = "pt")
          => (conv.err = "nil" /\ conv.out = (conv.halves \div 2) * 65535)
    /\ (conv.op = "Sp" /\ Whole /\ conv.unit = "in")
          => (conv.err = "nil" /\ conv.out = (conv.halves \div 2) * 72 * 65535)
    /\ (conv.op = "ScaledPointFromFloat" /\ Whole)
          => conv.out = (conv.halves \div 2) * 65535

\* Sp("1in") has returned
C12_Witness ==
    /\ conv.op = "Sp" /\ conv.unit = "in" /\ conv.parses /\ conv.halves = 2
    /\ conv.err = "nil" /\ conv.out = 72 * 65535

\* C13: for every non-empty list Mknodes returns, no node precedes the returned
\* head, and walking forward from the head ends at the returned tail.
C13_HeadAndTailAreTheEnds ==
    (Returned /\ result.head # Nil) =>
        /\ nodes[result.head].prev = Nil
        /\ TailOf(nodes, result.head) = result.tail
        /\ nodes[result.tail].next = Nil

\* the hyperlink starts still open after each node of the list l: a start opens
\* a region, a stop closes the region of its StartNode
RECURSIVE OpenAfter(_, _, _)
OpenAfter(ns, l, j) ==
    IF j = 0 THEN {}
    ELSE Then(OpenAfter(ns, l, j - 1), LAMBDA o :
         IF ns[l[j]].Action = "ActionHyperlink" THEN o \cup {l[j]}
         ELSE o \ {ns[l[j]].StartNode})

\* C14: walking a list returned by Mknodes from head to tail, at most one
\* hyperlink start is open at any point.
C14_HyperlinksNeverNest ==
    Returned =>
        \A j \in 1..Len(ListOf(nodes, result.head)) :
            Cardinality(OpenAfter(nodes, ListOf(nodes, result.head), j)) <= 1

\* the tree has only strings and nested spans as items
NoNodeItems == \A p \in DOMAIN items : \A i \in DOMAIN items[p] : items[p][i].kind # "node"

\* the place of the node n in the list l, 0 when it is not in it
PlaceIn(l, n) == IF \E j \in DOMAIN l : l[j] = n THEN CHOOSE j \in DOMAIN l : l[j] = n ELSE 0

\* the runs of the current top-level call that returned nodes
ListedRuns == {j \in DOMAIN runs : runs[j].call = calls /\ runs[j].head # Nil}

\* C15: for a tree of strings and nested spans, the nodes of an earlier item come
\* before the nodes of a later item in the returned list, and the ids of the
\* nodes strictly increase along the list.
C15_ListOrderIsCreationOrder ==
    (Returned /\ NoNodeItems) =>
        LET l == ListOf(nodes, result.head)
        IN /\ \A a, b \in DOMAIN l : a < b => nodes[l[a]].ID < nodes[l[b]].ID
           /\ \A j, k \in ListedRuns :
                 j < k => /\ PlaceIn(l, runs[j].head) > 0
                          /\ PlaceIn(l, runs[j].head) < PlaceIn(l, runs[k].head)

\* Mknodes returned the list of a tree with a string before and a string inside
\* a nested span that opened a hyperlink
C15_Witness ==
    /\ Returned /\ NoNodeItems
    /\ \E j, k \in ListedRuns : j < k /\ runs[j].t = Root /\ runs[k].t # Root
    /\ \E e \in Opens : events[e].call = calls
    /\ Len(ListOf(nodes, result.head)) >= 6

\* C16: two successive Mknodes calls on the same tree of strings and nested
\* spans, with no change made by the caller in between, return lists with the
\* same sequence of node kinds and the same hyperlink start and stop markers at
\* the same positions.
C16_MknodesIsRepeatable ==
    (NoNodeItems /\ Len(lists) >= 2 /\ lists[1].outcome = "ok" /\ lists[2].outcome = "ok")
        => lists[1].marks = lists[2].marks

====
